---- MODULE Spec2Model ----
(***************************************************************************)
(* Model of HighConvictionUltraProfitStrategy (your_strategy.py).          *)
(*                                                                         *)
(* Real numbers (Python floats) are exact rationals [n, d] with d > 0 in   *)
(* lowest terms; prices, cash and quantities are integers.  Timestamps are *)
(* integer clock ticks, TicksPerSecond ticks to a second.                  *)
(***************************************************************************)
EXTENDS Integers, Sequences, FiniteSets, TLC

VARIABLES cfg, st, now, sig, call

vars == <<cfg, st, now, sig, call>>

\* Optional values: None, or the value itself (a record)
None == <<>>
\* last_signal is None, "buy" or "sell"; None is spelled NoSignal there
NoSignal == "none"

(***************************** bounds ***************************************)
\* longest market.prices sequence offered to generate_signal
MaxLen == 3
\* largest max_trades among the configurations
MaxTrades == 2
\* longest win_loss_history built by on_trade
MaxHist == 1
\* clock: sub-second ticks per second, ticks taken inside one second, days
TicksPerSecond == 2
MaxSubTicks == 1
MaxDays == 1

PriceSet == {10, 12}
CashSet == {0, 100}
QuantitySet == {0, 1}

SecondsPerHour == 3600
HoursPerDay == 24
TicksPerHour == SecondsPerHour * TicksPerSecond
TicksPerDay == HoursPerDay * TicksPerHour

(************************ float arithmetic **********************************)
Abs(x) == IF x < 0 THEN -x ELSE x

RECURSIVE GCD(_, _)
GCD(a, b) == IF b = 0 THEN a ELSE GCD(b, a % b)

Rat(n, d) ==
    LET g == GCD(Abs(n), Abs(d))
        s == IF d < 0 THEN -1 ELSE 1
    IN  [n |-> s * (n \div g), d |-> s * (d \div g)]

R(i) == [n |-> i, d |-> 1]
\* sums are taken over the least common denominator
RAdd(a, b) ==
    LET g == GCD(a.d, b.d)
    IN  Rat(a.n * (b.d \div g) + b.n * (a.d \div g), (a.d \div g) * b.d)
RNeg(a) == [n |-> -a.n, d |-> a.d]
RSub(a, b) == RAdd(a, RNeg(b))
RMul(a, b) == Rat(a.n * b.n, a.d * b.d)
RDiv(a, b) == Rat(a.n * b.d, a.d * b.n)
RLt(a, b) == a.n * b.d < b.n * a.d
RLe(a, b) == a.n * b.d <= b.n * a.d
RMin(a, b) == IF RLt(b, a) THEN b ELSE a
RMax(a, b) == IF RLt(a, b) THEN b ELSE a
RAbs(a) == [n |-> Abs(a.n), d |-> a.d]

\* math.sqrt: the root rounded down to 1/SqrtScale (a float rounds to 2^-53)
SqrtScale == 1000
RECURSIVE ISqrtIn(_, _, _)
ISqrtIn(x, lo, hi) ==
    IF lo >= hi THEN lo
    ELSE LET mid == (lo + hi + 1) \div 2
         IN  IF mid * mid <= x THEN ISqrtIn(x, mid, hi) ELSE ISqrtIn(x, lo, mid - 1)
ISqrt(x) == ISqrtIn(x, 0, IF x < 46340 THEN x ELSE 46340)
RSqrt(a) == Rat(ISqrt((a.n * SqrtScale * SqrtScale) \div a.d), SqrtScale)

(************************ sequences *****************************************)
\* prices[-k:]
LastN(s, k) == IF Len(s) <= k THEN s ELSE SubSeq(s, Len(s) - k + 1, Len(s))

\* sum(s[lo..hi]), halving the range
RECURSIVE RSumRange(_, _, _)
RSumRange(s, lo, hi) ==
    IF lo > hi THEN R(0)
    ELSE IF lo = hi THEN s[lo]
    ELSE RAdd(RSumRange(s, lo, (lo + hi) \div 2),
              RSumRange(s, (lo + hi) \div 2 + 1, hi))

RSum(s) == RSumRange(s, 1, Len(s))

RECURSIVE ISum(_)
ISum(s) == IF s = <<>> THEN 0 ELSE s[1] + ISum(Tail(s))

Max3(a, b, c) ==
    LET m == IF a > b THEN a ELSE b IN IF m > c THEN m ELSE c

(************************ technical indicators ******************************)
_calculate_sma(prices, window) ==
    IF Len(prices) < window THEN None
    ELSE Rat(ISum(LastN(prices, window)), window)

\* _calculate_rsi that reads a flat window as all gains
_calculate_rsi_flat_100(prices, period) ==
    IF Len(prices) < period + 1 THEN None
    ELSE LET deltas == [i \in 1..(Len(prices) - 1) |-> prices[i + 1] - prices[i]]
             recent == LastN(deltas, period)
             gains  == [i \in 1..Len(recent) |-> IF recent[i] > 0 THEN recent[i] ELSE 0]
             losses == [i \in 1..Len(recent) |-> IF recent[i] < 0 THEN -recent[i] ELSE 0]
             avg_gain == Rat(ISum(gains), period)
             avg_loss == Rat(ISum(losses), period)
         IN  IF avg_loss.n = 0
             THEN R(100)
             ELSE LET rs == RDiv(avg_gain, avg_loss)
                  IN  RSub(R(100), RDiv(R(100), RAdd(R(1), rs)))

_calculate_rsi(prices, period) ==
    IF Len(prices) < period + 1 THEN None
    ELSE LET deltas == [i \in 1..(Len(prices) - 1) |-> prices[i + 1] - prices[i]]
             recent == LastN(deltas, period)
             gains  == [i \in 1..Len(recent) |-> IF recent[i] > 0 THEN recent[i] ELSE 0]
             losses == [i \in 1..Len(recent) |-> IF recent[i] < 0 THEN -recent[i] ELSE 0]
             avg_gain == Rat(ISum(gains), period)
             avg_loss == Rat(ISum(losses), period)
         IN  IF avg_loss.n = 0
             THEN (IF avg_gain.n > 0 THEN R(100) ELSE R(50))
             ELSE LET rs == RDiv(avg_gain, avg_loss)
                  IN  RSub(R(100), RDiv(R(100), RAdd(R(1), rs)))

_calculate_bollinger_bands(prices, period, std_dev) ==
    IF Len(prices) < period THEN None
    ELSE LET middle_band == _calculate_sma(prices, period)
             w == LastN(prices, period)
             sq == [i \in 1..Len(w) |->
                      RMul(RSub(R(w[i]), middle_band), RSub(R(w[i]), middle_band))]
             variance == RDiv(RSum(sq), R(period))
             std_deviation == RSqrt(variance)
         IN  [middle |-> middle_band,
              upper  |-> RAdd(middle_band, RMul(std_dev, std_deviation)),
              lower  |-> RSub(middle_band, RMul(std_dev, std_deviation))]

\* the nested helper of _calculate_macd; data is a sequence of rationals
RECURSIVE EmaFold(_, _, _)
EmaFold(rest, k, ema) ==
    IF rest = <<>> THEN ema
    ELSE EmaFold(Tail(rest), k,
                 RAdd(RMul(rest[1], k), RMul(ema, RSub(R(1), k))))

_calculate_ema(data, period) ==
    IF Len(data) < period THEN None
    ELSE LET k == Rat(2, period + 1)
             w == LastN(data, period)
             \* data[-period+1:] is the whole list when period = 1
             rest == IF period = 1 THEN data ELSE Tail(w)
         IN  EmaFold(rest, k, w[1])

_calculate_macd(prices, fast_period, slow_period, signal_period) ==
    IF Len(prices) < slow_period + signal_period THEN None
    ELSE LET rp == [i \in 1..Len(prices) |-> R(prices[i])]
             fast_ema == _calculate_ema(rp, fast_period)
             slow_ema == _calculate_ema(rp, slow_period)
         IN  IF fast_ema = None \/ slow_ema = None THEN None
             ELSE LET macd_line == RSub(fast_ema, slow_ema)
                      signal_line ==
                          _calculate_ema([i \in 1..signal_period |-> macd_line],
                                         signal_period)
                  IN  IF signal_line = None THEN None
                      ELSE [macd |-> macd_line, signal |-> signal_line,
                            histogram |-> RSub(macd_line, signal_line)]

\* returns = [(p[i] - p[i-1]) / p[i-1] for i in 1..len-1 if p[i-1] > 0]
ReturnAt(wp, i) == Rat(wp[i] - wp[i - 1], wp[i - 1])

Kept(wp) == {i \in 2..Len(wp) : wp[i - 1] > 0}

Returns(wp) ==
    [k \in 1..Cardinality(Kept(wp)) |->
        ReturnAt(wp, CHOOSE i \in Kept(wp) :
                        Cardinality({j \in Kept(wp) : j <= i}) = k)]

Variance(returns, mu) ==
    RDiv(RSum([i \in 1..Len(returns) |->
                 RMul(RSub(returns[i], mu), RSub(returns[i], mu))]),
         R(Len(returns)))

StdDev(returns) ==
    RSqrt(Variance(returns, RDiv(RSum(returns), R(Len(returns)))))

_calculate_volatility(prices, window) ==
    IF Len(prices) < window THEN None
    ELSE IF Len(Returns(LastN(prices, window))) < 2 THEN R(0)
    ELSE StdDev(Returns(LastN(prices, window)))

(************************ configuration *************************************)
\* __init__ defaults, with indicator windows short enough for MaxLen prices
BaseConfig ==
    [conviction_threshold |-> Rat(2, 5),
     rsi_period |-> 2, rsi_overbought |-> R(80), rsi_oversold |-> R(20),
     bb_period |-> 2, bb_std |-> R(2),
     macd_fast |-> 1, macd_slow |-> 2, macd_signal |-> 1,
     base_position_pct |-> Rat(15, 100), max_position_pct |-> Rat(4, 10),
     conviction_position_multiplier |-> R(2),
     stop_loss_pct |-> Rat(3, 100), take_profit_pct |-> Rat(15, 100),
     trailing_stop_pct |-> Rat(5, 100),
     max_drawdown_pct |-> Rat(2, 10), consecutive_loss_limit |-> 1,
     max_trades |-> MaxTrades, min_time_between_trades |-> 24]

Configs ==
    { BaseConfig,
      [BaseConfig EXCEPT !.conviction_threshold = Rat(9, 10)],
      [BaseConfig EXCEPT !.min_time_between_trades = 0, !.max_trades = 1,
                         !.max_position_pct = Rat(3, 100)] }

(************************ strategy components *******************************)
Markets ==
    { [prices |-> ps, current_price |-> cp] :
        ps \in UNION { [1..n -> PriceSet] : n \in 1..MaxLen }, cp \in PriceSet }

Portfolios == [cash : CashSet, quantity : QuantitySet]

\* "1. RSI Extreme Confirmation": the score and reasons after the RSI term
RsiConfirmation(c, rsi) ==
    IF rsi = None THEN [score |-> R(0), reasons |-> <<>>]
    ELSE IF RLt(rsi, c.rsi_oversold)
    THEN [score |-> RMul(RDiv(RSub(c.rsi_oversold, rsi), c.rsi_oversold), Rat(4, 10)),
          reasons |-> <<"rsi_oversold">>]
    ELSE IF RLt(c.rsi_overbought, rsi)
    THEN [score |-> RNeg(RMul(RDiv(RSub(rsi, c.rsi_overbought),
                                   RSub(R(100), c.rsi_overbought)),
                              Rat(4, 10))),
          reasons |-> <<"rsi_overbought">>]
    ELSE [score |-> R(0), reasons |-> <<>>]

\* "2. Bollinger Band Extreme Confirmation", added to the running score s
BollingerConfirmation(current_price, bb, s) ==
    IF bb = None THEN s
    ELSE IF RLt(current_price, bb.lower)
    THEN [score |-> RAdd(s.score,
                         RMul(RMin(R(1), RMul(RDiv(RSub(bb.lower, current_price),
                                                   bb.lower), R(2))),
                              Rat(3, 10))),
          reasons |-> Append(s.reasons, "bb_oversold")]
    ELSE IF RLt(bb.upper, current_price)
    THEN [score |-> RSub(s.score,
                         RMul(RMin(R(1), RMul(RDiv(RSub(current_price, bb.upper),
                                                   bb.upper), R(2))),
                              Rat(3, 10))),
          reasons |-> Append(s.reasons, "bb_overbought")]
    ELSE s

\* "3. MACD Confirmation", added to the running score s
MacdConfirmation(macd_result, s) ==
    IF macd_result = None THEN s
    ELSE IF RLt(R(0), macd_result.histogram) /\ RLt(macd_result.signal, macd_result.macd)
    THEN [score |-> RAdd(s.score,
                         RMul(RMin(R(1), RMul(macd_result.histogram, R(10))),
                              Rat(3, 10))),
          reasons |-> Append(s.reasons, "macd_bullish")]
    ELSE IF RLt(macd_result.histogram, R(0)) /\ RLt(macd_result.macd, macd_result.signal)
    THEN [score |-> RSub(s.score,
                         RMul(RMin(R(1), RMul(RAbs(macd_result.histogram), R(10))),
                              Rat(3, 10))),
          reasons |-> Append(s.reasons, "macd_bearish")]
    ELSE s

\* '"|".join(reasons) if reasons else "no_conviction"'
JoinReasons(s) ==
    [score |-> s.score,
     reason |-> IF s.reasons = <<>> THEN <<"no_conviction">> ELSE s.reasons]

_high_conviction_signal(c, market) ==
    IF Len(market.prices) < Max3(c.rsi_period, c.bb_period, c.macd_slow)
    THEN [score |-> R(0), reason |-> <<"insufficient_data">>]
    ELSE JoinReasons(
           MacdConfirmation(
             _calculate_macd(market.prices, c.macd_fast, c.macd_slow, c.macd_signal),
             BollingerConfirmation(
               R(market.current_price),
               _calculate_bollinger_bands(market.prices, c.bb_period, c.bb_std),
               RsiConfirmation(c, _calculate_rsi(market.prices, c.rsi_period)))))

\* _high_conviction_signal of every configuration and market, evaluated once
ConvictionTable ==
    [c \in Configs |-> [m \in Markets |-> _high_conviction_signal(c, m)]]

\* window of the volatility adjustment
VolWindow == 20
\* the sizing floor, max(0.05, ...)
MinPositionPct == Rat(5, 100)

\* the clamp without its upper limit
Clamp_no_cap(c, optimal_size) == RMax(MinPositionPct, optimal_size)

\* the clamp without its lower limit
Clamp_no_floor(c, optimal_size) == RMin(c.max_position_pct, optimal_size)

Clamp(c, optimal_size) == RMax(MinPositionPct, RMin(c.max_position_pct, optimal_size))

\* markets for the sizer alone: fewer than 20 prices, and 20 prices of low,
\* medium and high volatility
SizeMarkets ==
    { [prices |-> <<10>>, current_price |-> 10] }
    \cup { [prices |-> [i \in 1..VolWindow |-> IF i < VolWindow THEN 10 ELSE x],
            current_price |-> x] : x \in {10, 11, 12} }

\* self._calculate_volatility(prices, 20), tabulated over the price lists used
VolatilityTable ==
    [prices \in { m.prices : m \in Markets \cup SizeMarkets } |->
        _calculate_volatility(prices, VolWindow)]

_calculate_optimal_position_size(c, s, market, conviction_score) ==
    LET base_size == c.base_position_pct
        position_factor ==
            IF RLe(Rat(9, 10), conviction_score) THEN c.conviction_position_multiplier
            ELSE IF RLe(Rat(8, 10), conviction_score) THEN Rat(15, 10)
            ELSE R(1)
        last5 == LastN(s.win_loss_history, 5)
        wins == Cardinality({i \in 1..Len(last5) : last5[i]})
        performance_factor ==
            IF Len(s.win_loss_history) >= 5
            THEN (IF RLt(Rat(wins, 5), Rat(8, 10)) THEN Rat(7, 10) ELSE R(1))
            ELSE R(1)
        current_vol == VolatilityTable[market.prices]
        vol_factor ==
            IF current_vol # None
            THEN (IF RLt(Rat(3, 100), current_vol) THEN Rat(8, 10)
                  ELSE IF RLt(current_vol, Rat(1, 100)) THEN Rat(12, 10)
                  ELSE R(1))
            ELSE R(1)
        optimal_size == RMul(RMul(RMul(base_size, position_factor), performance_factor),
                             vol_factor)
    IN  Clamp(c, optimal_size)

\* timestamps are records so that None compares with them
DT(t) == [ticks |-> t]

\* _check_trade_limits with ">" for ">=" in the trade-count test
_check_trade_limits_gt(c, s, t) ==
    IF s.trade_count > c.max_trades
    THEN [ok |-> FALSE, reason |-> "max_trades_reached"]
    ELSE IF s.last_trade_time # None
            /\ t - s.last_trade_time.ticks < c.min_time_between_trades * TicksPerHour
    THEN [ok |-> FALSE, reason |-> "min_time_between_trades_not_met"]
    ELSE [ok |-> TRUE, reason |-> "ok"]

\* _check_trade_limits with the trade-count test after the cooldown test
_check_trade_limits_swapped(c, s, t) ==
    IF s.last_trade_time # None
       /\ t - s.last_trade_time.ticks < c.min_time_between_trades * TicksPerHour
    THEN [ok |-> FALSE, reason |-> "min_time_between_trades_not_met"]
    ELSE IF s.trade_count >= c.max_trades
    THEN [ok |-> FALSE, reason |-> "max_trades_reached"]
    ELSE [ok |-> TRUE, reason |-> "ok"]

\* _check_trade_limits without the cooldown test
_check_trade_limits_no_cooldown(c, s, t) ==
    IF s.trade_count >= c.max_trades
    THEN [ok |-> FALSE, reason |-> "max_trades_reached"]
    ELSE [ok |-> TRUE, reason |-> "ok"]

\* _check_trade_limits with the interval taken in seconds, not hours
_check_trade_limits_seconds(c, s, t) ==
    IF s.trade_count >= c.max_trades
    THEN [ok |-> FALSE, reason |-> "max_trades_reached"]
    ELSE IF s.last_trade_time # None
            /\ t - s.last_trade_time.ticks < c.min_time_between_trades * TicksPerSecond
    THEN [ok |-> FALSE, reason |-> "min_time_between_trades_not_met"]
    ELSE [ok |-> TRUE, reason |-> "ok"]

_check_trade_limits(c, s, t) ==
    IF s.trade_count >= c.max_trades
    THEN [ok |-> FALSE, reason |-> "max_trades_reached"]
    ELSE IF s.last_trade_time # None
            /\ t - s.last_trade_time.ticks < c.min_time_between_trades * TicksPerHour
    THEN [ok |-> FALSE, reason |-> "min_time_between_trades_not_met"]
    ELSE [ok |-> TRUE, reason |-> "ok"]

\* a float is truthy unless it is 0.0; None is falsy
Truthy(x) == x # None /\ x.n # 0

_check_drawdown_limits(c, s, portfolio_value) ==
    IF s.peak_portfolio_value.n = 0
    THEN [ok |-> TRUE, st |-> [s EXCEPT !.peak_portfolio_value = portfolio_value]]
    ELSE
    LET s1 == IF RLt(s.peak_portfolio_value, portfolio_value)
              THEN [s EXCEPT !.peak_portfolio_value = portfolio_value,
                             !.consecutive_losses = 0]
              ELSE s
        drawdown == RDiv(RSub(s1.peak_portfolio_value, portfolio_value),
                         s1.peak_portfolio_value)
        s2 == IF s1.last_signal = "sell" /\ Truthy(s1.entry_price)
                 /\ RLt(portfolio_value, s1.entry_price)
              THEN [s1 EXCEPT !.consecutive_losses = @ + 1]
              ELSE IF s1.last_signal = "buy" /\ Truthy(s1.entry_price)
                      /\ RLt(s1.entry_price, portfolio_value)
              THEN [s1 EXCEPT !.consecutive_losses = 0]
              ELSE s1
    IN  IF s2.consecutive_losses >= c.consecutive_loss_limit
        THEN [ok |-> FALSE, st |-> s2]
        ELSE IF RLt(c.max_drawdown_pct, drawdown)
        THEN [ok |-> FALSE, st |-> s2]
        ELSE [ok |-> TRUE, st |-> s2]

(************************ generate_signal ***********************************)
Hold(reason, detail) ==
    [action |-> "hold", size |-> None, reason |-> reason, detail |-> detail]

\* portfolio.cash + portfolio.quantity * current_price
PortfolioValue(market, portfolio) ==
    R(portfolio.cash + portfolio.quantity * market.current_price)

\* "Update peak portfolio value" at the head of generate_signal
UpdatePeak(s, portfolio_value) ==
    IF RLt(s.peak_portfolio_value, portfolio_value)
    THEN [s EXCEPT !.peak_portfolio_value = portfolio_value]
    ELSE s

\* PositionManagement that suppresses nothing
PositionManagement_unsuppressed(s, direction, detail) ==
    [final |-> direction, reason |-> "CONVICTION", detail |-> detail]

\* "Position management": suppress redundant actions
PositionManagement(s, direction, detail) ==
    IF direction = "buy" /\ s.last_signal = "buy"
    THEN [final |-> "hold", reason |-> "already_in_long_position", detail |-> <<>>]
    ELSE IF direction = "sell" /\ s.last_signal # "buy"
    THEN [final |-> "hold", reason |-> "no_long_position_to_sell", detail |-> <<>>]
    ELSE [final |-> direction, reason |-> "CONVICTION", detail |-> detail]

\* ExitOverrides with the four exits as a priority list: the stop loss, take
\* profit and time exit are tried whenever the trailing stop does not fire
ExitOverrides_priority(c, s, t, market, pm) ==
    IF s.last_signal = "buy" /\ s.entry_price # None
    THEN LET current_price == R(market.current_price)
             price_change_pct == RDiv(RSub(current_price, s.entry_price), s.entry_price)
             s1 == IF s.trailing_high = None \/ RLt(s.trailing_high, current_price)
                   THEN [s EXCEPT !.trailing_high = current_price]
                   ELSE s
             sell(r) == [final |-> "sell", reason |-> r, detail |-> <<>>]
         IN  IF s1.trailing_high # None
                /\ RLe(current_price,
                       RMul(s1.trailing_high, RSub(R(1), c.trailing_stop_pct)))
             THEN [st |-> s1, d |-> sell("TRAILING_STOP_TRIGGERED")]
             ELSE IF RLe(price_change_pct, RNeg(c.stop_loss_pct))
             THEN [st |-> s1, d |-> sell("STOP_LOSS_TRIGGERED")]
             ELSE IF RLe(c.take_profit_pct, price_change_pct)
             THEN [st |-> s1, d |-> sell("TAKE_PROFIT_TRIGGERED")]
             ELSE IF s1.entry_time # None /\ (t - s1.entry_time.ticks) \div TicksPerDay > 3
             THEN [st |-> s1, d |-> sell("TIME_BASED_EXIT")]
             ELSE [st |-> s1, d |-> pm]
    ELSE [st |-> s, d |-> pm]

\* "Risk management overrides": the if / elif chain on the open position
ExitOverrides(c, s, t, market, pm) ==
    IF s.last_signal = "buy" /\ s.entry_price # None
    THEN LET current_price == R(market.current_price)
             price_change_pct == RDiv(RSub(current_price, s.entry_price), s.entry_price)
             s1 == IF s.trailing_high = None \/ RLt(s.trailing_high, current_price)
                   THEN [s EXCEPT !.trailing_high = current_price]
                   ELSE s
             sell(r) == [final |-> "sell", reason |-> r, detail |-> <<>>]
         IN  IF s1.trailing_high # None
             THEN (IF RLe(current_price,
                          RMul(s1.trailing_high, RSub(R(1), c.trailing_stop_pct)))
                   THEN [st |-> s1, d |-> sell("TRAILING_STOP_TRIGGERED")]
                   ELSE [st |-> s1, d |-> pm])
             ELSE IF RLe(price_change_pct, RNeg(c.stop_loss_pct))
             THEN [st |-> s1, d |-> sell("STOP_LOSS_TRIGGERED")]
             ELSE IF RLe(c.take_profit_pct, price_change_pct)
             THEN [st |-> s1, d |-> sell("TAKE_PROFIT_TRIGGERED")]
             ELSE IF s1.entry_time # None /\ (t - s1.entry_time.ticks) \div TicksPerDay > 3
             THEN [st |-> s1, d |-> sell("TIME_BASED_EXIT")]
             ELSE [st |-> s1, d |-> pm]
    ELSE [st |-> s, d |-> pm]

\* ExecuteBuy that stamps the trade before it checks the cash
ExecuteBuy_stamped(c, s, t, market, portfolio, conviction_score, d) ==
    LET position_size_pct == _calculate_optimal_position_size(c, s, market, conviction_score)
        notional == RMul(R(portfolio.cash), position_size_pct)
        size == RDiv(notional, R(market.current_price))
        stamped == [s EXCEPT !.last_signal = "buy",
                             !.entry_price = R(market.current_price),
                             !.entry_time = DT(t),
                             !.trailing_high = R(market.current_price),
                             !.trailing_low = R(market.current_price),
                             !.last_trade_time = DT(t),
                             !.trade_count = @ + 1]
    IN  IF RLe(notional, R(0))
        THEN [st |-> stamped, sig |-> Hold("Insufficient cash", <<>>)]
        ELSE IF RLe(size, R(0))
        THEN [st |-> stamped, sig |-> Hold("Invalid position size", <<>>)]
        ELSE [st |-> stamped,
              sig |-> [action |-> "buy", size |-> size, reason |-> d.reason,
                       detail |-> d.detail]]

\* the branch "if final_signal == 'buy'"
ExecuteBuy(c, s, t, market, portfolio, conviction_score, d) ==
    LET position_size_pct == _calculate_optimal_position_size(c, s, market, conviction_score)
        notional == RMul(R(portfolio.cash), position_size_pct)
        size == RDiv(notional, R(market.current_price))
    IN  IF RLe(notional, R(0))
        THEN [st |-> s, sig |-> Hold("Insufficient cash", <<>>)]
        ELSE IF RLe(size, R(0))
        THEN [st |-> s, sig |-> Hold("Invalid position size", <<>>)]
        ELSE [st |-> [s EXCEPT !.last_signal = "buy",
                               !.entry_price = R(market.current_price),
                               !.entry_time = DT(t),
                               !.trailing_high = R(market.current_price),
                               !.trailing_low = R(market.current_price),
                               !.last_trade_time = DT(t),
                               !.trade_count = @ + 1],
              sig |-> [action |-> "buy", size |-> size, reason |-> d.reason,
                       detail |-> d.detail]]

\* '"STOP_LOSS" in reason or "TRAILING_STOP" in reason'
IsStopLoss(reason) == reason \in {"STOP_LOSS_TRIGGERED", "TRAILING_STOP_TRIGGERED"}

\* ExecuteSell without the "Check if we have positions" test
ExecuteSell_unchecked(s, t, portfolio, d) ==
    [st |-> [s EXCEPT !.last_signal = IF IsStopLoss(d.reason) THEN "sell" ELSE NoSignal,
                      !.entry_price = None,
                      !.entry_time = None,
                      !.trailing_high = None,
                      !.trailing_low = None,
                      !.last_trade_time = DT(t),
                      !.trade_count = @ + 1],
     sig |-> [action |-> "sell", size |-> R(portfolio.quantity), reason |-> d.reason,
              detail |-> d.detail]]

\* ExecuteSell that leaves the trailing extremes of the closed position
ExecuteSell_keeps_trailing(s, t, portfolio, d) ==
    IF portfolio.quantity <= 0
    THEN [st |-> s, sig |-> Hold("No position to sell", <<>>)]
    ELSE [st |-> [s EXCEPT !.last_signal = IF IsStopLoss(d.reason) THEN "sell" ELSE NoSignal,
                           !.entry_price = None,
                           !.entry_time = None,
                           !.last_trade_time = DT(t),
                           !.trade_count = @ + 1],
          sig |-> [action |-> "sell", size |-> R(portfolio.quantity), reason |-> d.reason,
                   detail |-> d.detail]]

\* ExecuteSell that records every sell as a stop
ExecuteSell_always_stop(s, t, portfolio, d) ==
    IF portfolio.quantity <= 0
    THEN [st |-> s, sig |-> Hold("No position to sell", <<>>)]
    ELSE [st |-> [s EXCEPT !.last_signal = "sell",
                           !.entry_price = None,
                           !.entry_time = None,
                           !.trailing_high = None,
                           !.trailing_low = None,
                           !.last_trade_time = DT(t),
                           !.trade_count = @ + 1],
          sig |-> [action |-> "sell", size |-> R(portfolio.quantity), reason |-> d.reason,
                   detail |-> d.detail]]

\* ExecuteSell that gives up a position it finds empty: it answers hold and
\* clears the position fields
ExecuteSell_abandons(s, t, portfolio, d) ==
    IF portfolio.quantity <= 0
    THEN [st |-> [s EXCEPT !.last_signal = NoSignal,
                           !.entry_price = None,
                           !.entry_time = None,
                           !.trailing_high = None,
                           !.trailing_low = None],
          sig |-> Hold("No position to sell", <<>>)]
    ELSE [st |-> [s EXCEPT !.last_signal = IF IsStopLoss(d.reason) THEN "sell" ELSE NoSignal,
                           !.entry_price = None,
                           !.entry_time = None,
                           !.trailing_high = None,
                           !.trailing_low = None,
                           !.last_trade_time = DT(t),
                           !.trade_count = @ + 1],
          sig |-> [action |-> "sell", size |-> R(portfolio.quantity), reason |-> d.reason,
                   detail |-> d.detail]]

\* the branch "elif final_signal == 'sell'"
ExecuteSell(s, t, portfolio, d) ==
    IF portfolio.quantity <= 0
    THEN [st |-> s, sig |-> Hold("No position to sell", <<>>)]
    ELSE [st |-> [s EXCEPT !.last_signal = IF IsStopLoss(d.reason) THEN "sell" ELSE NoSignal,
                           !.entry_price = None,
                           !.entry_time = None,
                           !.trailing_high = None,
                           !.trailing_low = None,
                           !.last_trade_time = DT(t),
                           !.trade_count = @ + 1],
          sig |-> [action |-> "sell", size |-> R(portfolio.quantity), reason |-> d.reason,
                   detail |-> d.detail]]

\* "Need sufficient price history"
SufficientData(c, market) ==
    Len(market.prices) >= Max3(c.rsi_period, c.bb_period, c.macd_slow)

\* generate_signal with the exit rules ahead of the pre-check gates: an open
\* position is closed by its trailing stop whatever the gates say
generate_signal_exits_first(c, s, t, market, portfolio) ==
    IF ~SufficientData(c, market)
    THEN [st |-> s, sig |-> Hold("Insufficient price data", <<>>)]
    ELSE
    LET portfolio_value == PortfolioValue(market, portfolio)
        s1 == UpdatePeak(s, portfolio_value)
        lim == _check_trade_limits(c, s1, t)
        ex == ExitOverrides(c, s1, t, market,
                            [final |-> "hold", reason |-> "", detail |-> <<>>])
    IN  IF ex.d.final = "sell"
        THEN ExecuteSell(ex.st, t, portfolio, ex.d)
        ELSE IF ~lim.ok
        THEN [st |-> s1, sig |-> Hold("Trade limit", <<lim.reason>>)]
        ELSE
        LET dd == _check_drawdown_limits(c, s1, portfolio_value)
        IN  IF ~dd.ok
            THEN [st |-> dd.st, sig |-> Hold("Drawdown limit exceeded", <<>>)]
            ELSE
            LET conv == ConvictionTable[c][market]
            IN  IF RLt(RAbs(conv.score), c.conviction_threshold)
                THEN [st |-> dd.st, sig |-> Hold("Low conviction", <<>>)]
                ELSE
                LET direction == IF RLt(R(0), conv.score) THEN "buy" ELSE "sell"
                    pm == PositionManagement(dd.st, direction, conv.reason)
                    ov == ExitOverrides(c, dd.st, t, market, pm)
                IN  IF ov.d.final = "buy"
                    THEN ExecuteBuy(c, ov.st, t, market, portfolio, conv.score, ov.d)
                    ELSE IF ov.d.final = "sell"
                    THEN ExecuteSell(ov.st, t, portfolio, ov.d)
                    ELSE [st |-> ov.st, sig |-> Hold(ov.d.reason, <<>>)]

\* generate_signal on state s at clock reading t: the new state and the Signal
generate_signal(c, s, t, market, portfolio) ==
    IF ~SufficientData(c, market)
    THEN [st |-> s, sig |-> Hold("Insufficient price data", <<>>)]
    ELSE
    LET portfolio_value == PortfolioValue(market, portfolio)
        s1 == UpdatePeak(s, portfolio_value)
        lim == _check_trade_limits(c, s1, t)
    IN  IF ~lim.ok
        THEN [st |-> s1, sig |-> Hold("Trade limit", <<lim.reason>>)]
        ELSE
        LET dd == _check_drawdown_limits(c, s1, portfolio_value)
        IN  IF ~dd.ok
            THEN [st |-> dd.st, sig |-> Hold("Drawdown limit exceeded", <<>>)]
            ELSE
            LET conv == ConvictionTable[c][market]
            IN  IF RLt(RAbs(conv.score), c.conviction_threshold)
                THEN [st |-> dd.st, sig |-> Hold("Low conviction", <<>>)]
                ELSE
                LET direction == IF RLt(R(0), conv.score) THEN "buy" ELSE "sell"
                    pm == PositionManagement(dd.st, direction, conv.reason)
                    ov == ExitOverrides(c, dd.st, t, market, pm)
                IN  IF ov.d.final = "buy"
                    THEN ExecuteBuy(c, ov.st, t, market, portfolio, conv.score, ov.d)
                    ELSE IF ov.d.final = "sell"
                    THEN ExecuteSell(ov.st, t, portfolio, ov.d)
                    ELSE [st |-> ov.st, sig |-> Hold(ov.d.reason, <<>>)]

(************************ on_trade ******************************************)
\* caps of win_loss_history: in memory, and in the exported snapshot
HistoryCap == 100
ExportCap == 50

on_trade(s, action, execution_price, execution_size) ==
    IF action = "sell" /\ execution_size > 0 /\ Truthy(s.entry_price)
    THEN LET is_win == RLt(s.entry_price, R(execution_price))
             h1 == Append(s.win_loss_history, is_win)
             h2 == IF Len(h1) > HistoryCap THEN Tail(h1) ELSE h1
         IN  [s EXCEPT !.win_loss_history = h2,
                       !.consecutive_losses = IF is_win THEN 0 ELSE @ + 1,
                       !.recent_performance_score =
                           IF is_win THEN RMin(Rat(12, 10), RAdd(@, Rat(5, 100)))
                           ELSE RMax(Rat(8, 10), RSub(@, Rat(1, 10)))]
    ELSE s

(************************ persistence ***************************************)
\* _utc_iso: ISO-8601 text with seconds precision, modelled by the whole seconds
_utc_iso(dt) == [iso_seconds |-> dt.ticks \div TicksPerSecond]

\* fromisoformat that reads the text an hour off (the UTC offset misapplied)
fromisoformat_shifted(text) ==
    DT(text.iso_seconds * TicksPerSecond + TicksPerHour)

\* datetime.fromisoformat on such a text
fromisoformat(text) == DT(text.iso_seconds * TicksPerSecond)

Keys == {"last_signal", "entry_price", "entry_time", "trailing_high", "trailing_low",
         "consecutive_losses", "peak_portfolio_value", "trade_count",
         "last_trade_time", "win_loss_history", "recent_performance_score"}

\* the snapshot is a dict: a function on its keys
get_state(s) ==
    [k \in Keys |->
        CASE k = "last_signal" -> s.last_signal
          [] k = "entry_price" -> s.entry_price
          [] k = "entry_time" ->
                 IF s.entry_time # None THEN _utc_iso(s.entry_time) ELSE None
          [] k = "trailing_high" -> s.trailing_high
          [] k = "trailing_low" -> s.trailing_low
          [] k = "consecutive_losses" -> s.consecutive_losses
          [] k = "peak_portfolio_value" -> s.peak_portfolio_value
          [] k = "trade_count" -> s.trade_count
          [] k = "last_trade_time" ->
                 IF s.last_trade_time # None THEN _utc_iso(s.last_trade_time) ELSE None
          [] k = "win_loss_history" ->
                 IF Len(s.win_loss_history) > ExportCap
                 THEN LastN(s.win_loss_history, ExportCap)
                 ELSE s.win_loss_history
          [] k = "recent_performance_score" -> s.recent_performance_score]

\* dict.get(key, default)
Get(state, k, default) == IF k \in DOMAIN state THEN state[k] ELSE default

set_state(s, state) ==
    LET entry_time == Get(state, "entry_time", None)
        last_trade_time == Get(state, "last_trade_time", None)
    IN  [last_signal |-> Get(state, "last_signal", NoSignal),
         entry_price |-> Get(state, "entry_price", None),
         entry_time |-> IF entry_time # None THEN fromisoformat(entry_time)
                        ELSE s.entry_time,
         trailing_high |-> Get(state, "trailing_high", None),
         trailing_low |-> Get(state, "trailing_low", None),
         consecutive_losses |-> Get(state, "consecutive_losses", 0),
         peak_portfolio_value |-> Get(state, "peak_portfolio_value", R(0)),
         trade_count |-> Get(state, "trade_count", 0),
         last_trade_time |-> IF last_trade_time # None THEN fromisoformat(last_trade_time)
                             ELSE s.last_trade_time,
         win_loss_history |-> Get(state, "win_loss_history", <<>>),
         recent_performance_score |-> Get(state, "recent_performance_score", R(1))]

\* "Internal state" after __init__
Fresh ==
    [last_signal |-> NoSignal, entry_price |-> None, entry_time |-> None,
     trailing_high |-> None, trailing_low |-> None, consecutive_losses |-> 0,
     peak_portfolio_value |-> R(0), trade_count |-> 0, last_trade_time |-> None,
     win_loss_history |-> <<>>, recent_performance_score |-> R(1)]

(************************ the state machine *********************************)
NoSignalYet == [action |-> "none", size |-> None, reason |-> "", detail |-> <<>>]

Init ==
    /\ cfg \in Configs
    /\ st = Fresh
    /\ now = 0
    /\ sig = NoSignalYet
    /\ call = [op |-> "init"]

\* sig is the returned Signal; now is what datetime.now(timezone.utc) reads
GenerateSignal(market, portfolio) ==
    /\ st' = generate_signal(cfg, st, now, market, portfolio).st
    /\ sig' = generate_signal(cfg, st, now, market, portfolio).sig
    /\ call' = [op |-> "generate_signal"]
    /\ UNCHANGED <<cfg, now>>

OnTrade(action, execution_price, execution_size) ==
    /\ Len(on_trade(st, action, execution_price, execution_size).win_loss_history) <= MaxHist
    /\ st' = on_trade(st, action, execution_price, execution_size)
    /\ call' = [op |-> "on_trade"]
    /\ UNCHANGED <<cfg, now, sig>>

\* the wall clock between calls: a tick, a day, or a tick short of a day
ClockSteps == {1, TicksPerDay - 1, TicksPerDay}

NearDay(t) ==
    LET r == t % TicksPerDay IN r <= MaxSubTicks \/ TicksPerDay - r <= MaxSubTicks

Tick(d) ==
    /\ now + d <= MaxDays * TicksPerDay + MaxSubTicks
    /\ NearDay(now + d)
    /\ now' = now + d
    /\ UNCHANGED <<cfg, st, sig, call>>

Restrict(state, keys) == [k \in keys |-> state[k]]

\* the process restarts: a new object is constructed and set_state is given
\* the snapshot that get_state returned
Restart ==
    /\ st' = set_state(Fresh, get_state(st))
    /\ call' = [op |-> "restart"]
    /\ UNCHANGED <<cfg, now, sig>>

\* incomplete snapshots offered to set_state: each key missing, or all of them
KeySets == {{}} \cup { Keys \ {k} : k \in Keys }

\* set_state is called on the running object with an incomplete snapshot of
\* its own state
SetState(keys) ==
    /\ st' = set_state(st, Restrict(get_state(st), keys))
    /\ call' = [op |-> "set_state", keys |-> keys]
    /\ UNCHANGED <<cfg, now, sig>>

Calls ==
    \/ \E m \in Markets, p \in Portfolios : GenerateSignal(m, p)
    \/ \E a \in {"buy", "sell", "hold"}, x \in PriceSet, z \in {0, 1} : OnTrade(a, x, z)
    \/ \E d \in ClockSteps : Tick(d)

Next == Calls

Spec == Init /\ [][Next]_vars

\* an incomplete snapshot is explored as the last operation of a behaviour
NextPersist ==
    \/ call.op # "set_state" /\ Calls
    \/ call.op # "set_state" /\ Restart
    \/ call.op # "set_state" /\ \E keys \in KeySets : SetState(keys)

SpecPersist == Init /\ [][NextPersist]_vars

(************************ positions held for days ***************************)
\* the clock moves HoldDays days at a time, at most MaxHolds times
HoldDays == 4
MaxHolds == 1

Wait ==
    /\ now + HoldDays * TicksPerDay <= MaxHolds * HoldDays * TicksPerDay
    /\ now' = now + HoldDays * TicksPerDay
    /\ UNCHANGED <<cfg, st, sig, call>>

NextHold ==
    \/ \E m \in Markets, p \in Portfolios : GenerateSignal(m, p)
    \/ \E a \in {"buy", "sell", "hold"}, x \in PriceSet, z \in {0, 1} : OnTrade(a, x, z)
    \/ Wait

SpecHold == Init /\ [][NextHold]_vars

(************************ the position sizer alone **************************)
\* longest win_loss_history handed to the sizer
MaxSizeHist == 5

SizeConfigs ==
    { [BaseConfig EXCEPT !.base_position_pct = b, !.max_position_pct = x,
                         !.conviction_position_multiplier = k] :
        b \in {Rat(1, 100), Rat(15, 100), Rat(3, 10)},
        x \in {Rat(3, 100), Rat(4, 10)},
        k \in {R(2), R(5)} }

SizeHistories == UNION { [1..n -> BOOLEAN] : n \in 0..MaxSizeHist }

\* conviction scores on both sides of the 0.8 and 0.9 steps
SizeScores == {Rat(-9, 10), Rat(4, 10), Rat(85, 100), Rat(95, 100)}

InitSize ==
    /\ cfg \in SizeConfigs
    /\ st \in { [Fresh EXCEPT !.win_loss_history = h] : h \in SizeHistories }
    /\ now = 0
    /\ sig = NoSignalYet
    /\ call = [op |-> "init"]

Size(market, conviction_score) ==
    /\ call' = [op |-> "size", score |-> conviction_score,
                volatility |-> VolatilityTable[market.prices],
                result |-> _calculate_optimal_position_size(cfg, st, market,
                                                            conviction_score)]
    /\ UNCHANGED <<cfg, st, now, sig>>

NextSize == \E m \in SizeMarkets, x \in SizeScores : Size(m, x)

SpecSize == InitSize /\ [][NextSize]_vars

(************************ the RSI alone ****************************************)
\* longest price list and longest period handed to _calculate_rsi
MaxRsiLen == 4
MaxRsiPeriod == 3

RsiPrices == {9, 10, 12}

RsiInputs == UNION { [1..n -> RsiPrices] : n \in 0..MaxRsiLen }

InitRsi ==
    /\ cfg = BaseConfig
    /\ st = Fresh
    /\ now = 0
    /\ sig = NoSignalYet
    /\ call = [op |-> "init"]

Rsi(prices, period) ==
    /\ call' = [op |-> "rsi", prices |-> prices, period |-> period,
                result |-> _calculate_rsi(prices, period)]
    /\ UNCHANGED <<cfg, st, now, sig>>

NextRsi == \E prices \in RsiInputs, period \in 1..MaxRsiPeriod : Rsi(prices, period)

SpecRsi == InitRsi /\ [][NextRsi]_vars

(************************ properties ****************************************)
\* the Signal and state that generate_signal would return in the current state
Result(m, p) == generate_signal(cfg, st, now, m, p)

MaxTradesHold == Hold("Trade limit", <<"max_trades_reached">>)

\* C1: from a fresh instance, under generate_signal and on_trade calls,
\* trade_count never decreases and never exceeds max_trades.
C1_TradeCountCapped ==
    /\ [](st.trade_count <= cfg.max_trades)
    /\ [][st'.trade_count >= st.trade_count]_vars

\* a call was refused because the count had reached the maximum
C1_Witness ==
    /\ st.trade_count = cfg.max_trades
    /\ cfg.max_trades > 0
    /\ sig = MaxTradesHold

\* C2 as stated: once trade_count has reached max_trades, every call, whatever
\* its market and portfolio, returns hold with reason max_trades_reached.
C2_Original ==
    st.trade_count >= cfg.max_trades =>
        \A m \in Markets, p \in Portfolios : Result(m, p).sig = MaxTradesHold

\* C2 amended: once trade_count has reached max_trades, every call returns
\* hold and leaves trade_count alone; the reason is max_trades_reached when the
\* market has enough prices, and "Insufficient price data" when it has not.
C2_MaxTradesHold ==
    st.trade_count >= cfg.max_trades =>
        \A m \in Markets, p \in Portfolios :
            /\ Result(m, p).st.trade_count = st.trade_count
            /\ Result(m, p).sig =
                   IF Len(m.prices) >= Max3(cfg.rsi_period, cfg.bb_period, cfg.macd_slow)
                   THEN MaxTradesHold
                   ELSE Hold("Insufficient price data", <<>>)

\* at the maximum, a call with too few prices was answered
C2_Witness ==
    /\ st.trade_count = cfg.max_trades
    /\ sig = Hold("Insufficient price data", <<>>)

\* the state right after a buy: Long, and no clock time has passed the cooldown
AfterBuy ==
    /\ sig.action = "buy"
    /\ call.op = "generate_signal"
    /\ st.last_signal = "buy"
    /\ now - st.last_trade_time.ticks < cfg.min_time_between_trades * TicksPerHour

\* the markets of a repeated call: enough prices, price unchanged since the buy
SamePrice(m) ==
    /\ Len(m.prices) >= Max3(cfg.rsi_period, cfg.bb_period, cfg.macd_slow)
    /\ R(m.current_price) = st.entry_price

\* C3 as stated: a call right after a buy (price unchanged, cooldown not
\* elapsed, still Long) returns hold with reason already_in_long_position.
C3_Original ==
    AfterBuy =>
        \A m \in Markets, p \in Portfolios :
            SamePrice(m) => Result(m, p).sig = Hold("already_in_long_position", <<>>)

\* C3 amended: such a call returns hold and no duplicate buy, but the reason is
\* the trade limit (min_time_between_trades_not_met, or max_trades_reached when
\* the buy used up max_trades), never already_in_long_position.
C3_HoldAfterBuy ==
    AfterBuy =>
        \A m \in Markets, p \in Portfolios :
            SamePrice(m) =>
                /\ Result(m, p).sig =
                       IF st.trade_count >= cfg.max_trades
                       THEN MaxTradesHold
                       ELSE Hold("Trade limit", <<"min_time_between_trades_not_met">>)
                /\ Result(m, p).st.trade_count = st.trade_count
                /\ Result(m, p).st.last_signal = "buy"

\* the repeated call was made at the clock reading of the buy and refused
C3_Witness ==
    /\ sig = Hold("Trade limit", <<"min_time_between_trades_not_met">>)
    /\ st.last_signal = "buy"
    /\ st.last_trade_time = DT(now)
    /\ st.entry_time = DT(now)

\* the open position as generate_signal sees it
Long == st.last_signal = "buy" /\ st.entry_price # None

\* the call passes the data, trade-limit, drawdown and conviction checks, so
\* that the exit rules are evaluated
ReachesExits(m, p) ==
    /\ Len(m.prices) >= Max3(cfg.rsi_period, cfg.bb_period, cfg.macd_slow)
    /\ _check_trade_limits(cfg, st, now).ok
    /\ _check_drawdown_limits(cfg, UpdatePeak(st, PortfolioValue(m, p)),
                              PortfolioValue(m, p)).ok
    /\ RLe(cfg.conviction_threshold, RAbs(ConvictionTable[cfg][m].score))

\* (current_price - entry_price) / entry_price
Gain(m) == RDiv(RSub(R(m.current_price), st.entry_price), st.entry_price)

\* C4: while Long with entry_price set and quantity > 0, a call whose price is
\* at least entry_price x (1 + take_profit_pct) returns sell with reason
\* TAKE_PROFIT_TRIGGERED, and a call with a smaller gain never returns a
\* take-profit sell.  Stated for the calls that get as far as the exit rules.
C4_TakeProfit ==
    Long =>
        \A m \in Markets, p \in Portfolios :
            (p.quantity > 0 /\ ReachesExits(m, p)) =>
                /\ RLe(cfg.take_profit_pct, Gain(m)) =>
                       /\ Result(m, p).sig.action = "sell"
                       /\ Result(m, p).sig.reason = "TAKE_PROFIT_TRIGGERED"
                /\ RLt(Gain(m), cfg.take_profit_pct) =>
                       Result(m, p).sig.reason # "TAKE_PROFIT_TRIGGERED"

\* C5: generate_signal never returns sell when the held quantity is 0 or
\* less; a sell it returns has the full held quantity, which is > 0, as size.
C5_SellOnlyHeld ==
    \A m \in Markets, p \in Portfolios :
        Result(m, p).sig.action = "sell" =>
            /\ p.quantity > 0
            /\ Result(m, p).sig.size = R(p.quantity)
            /\ RLt(R(0), Result(m, p).sig.size)

\* a sell was returned
C5_Witness ==
    /\ sig.action = "sell"
    /\ RLt(R(0), sig.size)
    /\ st.entry_price = None

\* C6 as stated: a buy has a size > 0 and at most
\* (cash / current_price) x max_position_pct; with cash = 0 there is no buy.
C6_Original ==
    \A m \in Markets, p \in Portfolios :
        /\ Result(m, p).sig.action = "buy" =>
               /\ RLt(R(0), Result(m, p).sig.size)
               /\ RLe(Result(m, p).sig.size,
                      RMul(Rat(p.cash, m.current_price), cfg.max_position_pct))
        /\ p.cash = 0 => Result(m, p).sig.action # "buy"

\* C6 amended: a buy has a size > 0 and at most (cash / current_price) x
\* max(0.05, max_position_pct): the 5% floor of the sizer wins over a smaller
\* max_position_pct; with cash = 0 there is no buy.
C6_BuySize ==
    \A m \in Markets, p \in Portfolios :
        /\ Result(m, p).sig.action = "buy" =>
               /\ RLt(R(0), Result(m, p).sig.size)
               /\ RLe(Result(m, p).sig.size,
                      RMul(Rat(p.cash, m.current_price),
                           RMax(Rat(5, 100), cfg.max_position_pct)))
        /\ p.cash = 0 => Result(m, p).sig.action # "buy"

\* a buy was returned under a max_position_pct below the floor
C6_Witness ==
    /\ sig.action = "buy"
    /\ RLt(R(0), sig.size)
    /\ RLt(cfg.max_position_pct, Rat(5, 100))

\* C7 as stated: the fraction returned by _calculate_optimal_position_size
\* lies in [0.05, max_position_pct] for every input and configuration.
C7_Original ==
    call.op = "size" =>
        /\ RLe(Rat(5, 100), call.result)
        /\ RLe(call.result, cfg.max_position_pct)

\* C7 amended: the fraction lies in [0.05, max(0.05, max_position_pct)]: it is
\* within [0.05, max_position_pct] when max_position_pct >= 0.05, and is 0.05
\* when max_position_pct is configured below 0.05.
C7_SizeClamped ==
    call.op = "size" =>
        /\ RLe(Rat(5, 100), call.result)
        /\ RLe(call.result, RMax(Rat(5, 100), cfg.max_position_pct))
        /\ RLt(cfg.max_position_pct, Rat(5, 100)) => call.result = Rat(5, 100)

\* the sizer ran on five recorded outcomes, high volatility and a
\* max_position_pct below the floor
C7_Witness ==
    /\ call.op = "size"
    /\ Len(st.win_loss_history) >= 5
    /\ call.volatility # None
    /\ RLt(Rat(3, 100), call.volatility)
    /\ RLt(cfg.max_position_pct, Rat(5, 100))
    /\ call.result = Rat(5, 100)

\* what a new instance holds after set_state(get_state()) of the state s
RoundTrip(s) == set_state(Fresh, get_state(s))

\* a timestamp with no fraction of a second
WholeSecond(dt) == dt = None \/ dt.ticks % TicksPerSecond = 0

\* dt as _utc_iso writes it and fromisoformat reads it back
Truncated(dt) == IF dt = None THEN None ELSE fromisoformat(_utc_iso(dt))

\* C8 as stated: in every reachable state, an instance restored from the
\* exported snapshot returns the same decision and reaches the same state as
\* the original on any identical next generate_signal call.
C8_Original ==
    \A m \in Markets, p \in Portfolios :
        generate_signal(cfg, RoundTrip(st), now, m, p) = Result(m, p)

\* C8 amended: the restored instance holds the original's state with
\* entry_time and last_trade_time cut to whole seconds and win_loss_history
\* cut to its last 50 entries; when the two timestamps are whole seconds and
\* the history has at most 50 entries, it returns the same decision and
\* reaches the same state as the original on any identical next call.
C8_RoundTrip ==
    /\ RoundTrip(st) =
           [st EXCEPT !.entry_time = Truncated(@),
                      !.last_trade_time = Truncated(@),
                      !.win_loss_history = LastN(@, ExportCap)]
    /\ (/\ WholeSecond(st.entry_time)
        /\ WholeSecond(st.last_trade_time)
        /\ Len(st.win_loss_history) <= ExportCap)
       => \A m \in Markets, p \in Portfolios :
              generate_signal(cfg, RoundTrip(st), now, m, p) = Result(m, p)

\* an open position with a recorded outcome was restored from its snapshot, and
\* the restored instance is asked for a decision that sells
C8_Witness ==
    /\ call.op = "restart"
    /\ st.entry_time # None
    /\ st.win_loss_history # <<>>
    /\ \E m \in Markets, p \in Portfolios : Result(m, p).sig.action = "sell"

\* C9: after set_state with a snapshot that lacks a field, that field has the
\* value __init__ gives it, whatever the instance held before the call.
C9_MissingFieldDefault ==
    call.op = "set_state" => \A k \in Keys \ call.keys : st[k] = Fresh[k]

\* the final decision of a call that gets as far as the exit rules
FinalDecision(m, p) ==
    ExitOverrides(cfg,
                  _check_drawdown_limits(cfg, UpdatePeak(st, PortfolioValue(m, p)),
                                         PortfolioValue(m, p)).st,
                  now, m,
                  PositionManagement(
                      _check_drawdown_limits(cfg, UpdatePeak(st, PortfolioValue(m, p)),
                                             PortfolioValue(m, p)).st,
                      IF RLt(R(0), ConvictionTable[cfg][m].score) THEN "buy" ELSE "sell",
                      ConvictionTable[cfg][m].reason)).d.final

\* drawdown of the portfolio value from the peak, the peak raised to the value
Drawdown(m, p) ==
    RDiv(RSub(RMax(st.peak_portfolio_value, PortfolioValue(m, p)), PortfolioValue(m, p)),
         RMax(st.peak_portfolio_value, PortfolioValue(m, p)))

\* the degraded conditions of a call
ShortHistory(m) == Len(m.prices) < Max3(cfg.rsi_period, cfg.bb_period, cfg.macd_slow)

TradeCountBreached == st.trade_count >= cfg.max_trades

CooldownBreached ==
    /\ st.last_trade_time # None
    /\ now - st.last_trade_time.ticks < cfg.min_time_between_trades * TicksPerHour

DrawdownBreached(m, p) ==
    /\ RLt(R(0), st.peak_portfolio_value)
    /\ RLt(cfg.max_drawdown_pct, Drawdown(m, p))

\* the counter as the drawdown check finds it after its own bookkeeping
ConsecutiveLossBreached(m, p) ==
    /\ RLt(R(0), st.peak_portfolio_value)
    /\ _check_drawdown_limits(cfg, UpdatePeak(st, PortfolioValue(m, p)),
                              PortfolioValue(m, p)).st.consecutive_losses
           >= cfg.consecutive_loss_limit

ZeroCashBuy(m, p) == ReachesExits(m, p) /\ FinalDecision(m, p) = "buy" /\ p.cash = 0

ZeroQuantitySell(m, p) ==
    ReachesExits(m, p) /\ FinalDecision(m, p) = "sell" /\ p.quantity = 0

Degraded(m, p) ==
    \/ ShortHistory(m)
    \/ TradeCountBreached
    \/ CooldownBreached
    \/ DrawdownBreached(m, p)
    \/ ConsecutiveLossBreached(m, p)
    \/ ZeroCashBuy(m, p)
    \/ ZeroQuantitySell(m, p)

C11_PeakBound ==
    /\ [](\A m \in Markets, p \in Portfolios :
             RLe(PortfolioValue(m, p), Result(m, p).st.peak_portfolio_value))
    /\ [][RLe(st.peak_portfolio_value, st'.peak_portfolio_value)]_vars

\* the step is a generate_signal call that returned sell
SellStep ==
    /\ call'.op = "generate_signal"
    /\ sig'.action = "sell"
    /\ st'.trade_count = st.trade_count + 1

\* C12: when generate_signal returns sell and on_trade is then called for that
\* sell with execution_size > 0, win_loss_history grows by one entry, TRUE iff
\* the execution price is above the entry price the position had,
\* consecutive_losses is incremented on a loss and reset to 0 on a win, and
\* recent_performance_score moves up 0.05 on a win and down 0.1 on a loss.
C12_SellClassified ==
    [][(SellStep /\ st.entry_price # None) =>
          \A x \in PriceSet :
              /\ on_trade(st', "sell", x, 1).win_loss_history =
                     Append(st.win_loss_history, RLt(st.entry_price, R(x)))
              /\ on_trade(st', "sell", x, 1).consecutive_losses =
                     (IF RLt(st.entry_price, R(x)) THEN 0 ELSE st.consecutive_losses + 1)
              /\ on_trade(st', "sell", x, 1).recent_performance_score =
                     (IF RLt(st.entry_price, R(x))
                      THEN RMin(Rat(12, 10), RAdd(st.recent_performance_score, Rat(5, 100)))
                      ELSE RMax(Rat(8, 10), RSub(st.recent_performance_score, Rat(1, 10))))
      ]_vars

\* clock readings of a second instance that makes the same call later
LaterReadings == { now + d : d \in ClockSteps }

\* C13: two instances in the same state, given the same market and portfolio,
\* return the same decision and end in the same state whatever the wall-clock
\* time at which each makes the call.
C13_ClockIndependent ==
    \A m \in Markets, p \in Portfolios, t \in LaterReadings :
        /\ generate_signal(cfg, st, t, m, p).sig = Result(m, p).sig
        /\ generate_signal(cfg, st, t, m, p).st = Result(m, p).st

\* the last `period` deltas of the price list of the call
LastDeltas ==
    { call.prices[i] - call.prices[i - 1] :
        i \in (Len(call.prices) - call.period + 1)..Len(call.prices) }

\* C14: _calculate_rsi returns None exactly when fewer than period + 1 prices
\* are given; a value it returns lies in [0, 100], is exactly 100 when every
\* one of the last `period` deltas is a gain and exactly 50 when every one of
\* them is zero.
C14_Rsi ==
    call.op = "rsi" =>
        /\ Len(call.prices) < call.period + 1 <=> call.result = None
        /\ call.result # None =>
               /\ RLe(R(0), call.result)
               /\ RLe(call.result, R(100))
               /\ (\A x \in LastDeltas : x > 0) => call.result = R(100)
               /\ (\A x \in LastDeltas : x = 0) => call.result = R(50)

\* an RSI of 100 over two rising deltas, the window shorter than the list
C14_Witness ==
    /\ call.op = "rsi"
    /\ call.period = 2
    /\ Len(call.prices) > call.period + 1
    /\ \E x \in LastDeltas : x > 0
    /\ \A x \in LastDeltas : x > 0
    /\ call.result = R(100)

\* C15: every generate_signal call that starts with consecutive_losses at or
\* above consecutive_loss_limit returns hold.
C15_LossLimitHolds ==
    st.consecutive_losses >= cfg.consecutive_loss_limit =>
        \A m \in Markets, p \in Portfolios : Result(m, p).sig.action = "hold"

\* the step is a generate_signal call that returned buy or sell
TradeStep ==
    /\ call'.op = "generate_signal"
    /\ sig'.action \in {"buy", "sell"}
    /\ st'.trade_count = st.trade_count + 1

\* C16: a generate_signal call made less than min_time_between_trades hours
\* after the last returned buy or sell returns hold, and two consecutive
\* buy/sell decisions are at least min_time_between_trades hours apart.
C16_Cooldown ==
    /\ [](CooldownBreached =>
              \A m \in Markets, p \in Portfolios : Result(m, p).sig.action = "hold")
    /\ [][(TradeStep /\ st.last_trade_time # None) =>
              /\ st'.last_trade_time = DT(now)
              /\ now - st.last_trade_time.ticks >=
                     cfg.min_time_between_trades * TicksPerHour]_vars

\* a second trade was returned once a cooldown of 24 hours had passed
C16_Witness ==
    /\ call.op = "generate_signal"
    /\ sig.action = "sell"
    /\ st.trade_count = 2
    /\ cfg.min_time_between_trades = HoursPerDay
    /\ st.last_trade_time = DT(TicksPerDay)

\* C17: the buys and sells returned by one instance alternate, starting with a
\* buy: before the first of them the instance is not Long, only a returned buy
\* or sell changes whether last_signal is "buy", a buy is returned only while
\* last_signal is not "buy" and makes it "buy", and a sell is returned only
\* while last_signal is "buy" and makes it something else.
C17_Alternate ==
    /\ [](st.trade_count = 0 => st.last_signal # "buy")
    /\ [][((st'.last_signal = "buy") # (st.last_signal = "buy")) => TradeStep]_vars
    /\ [][TradeStep =>
              /\ sig'.action = "buy" =>
                     st.last_signal # "buy" /\ st'.last_signal = "buy"
              /\ sig'.action = "sell" =>
                     st.last_signal = "buy" /\ st'.last_signal # "buy"]_vars

\* a conviction sell was returned after the buy and closed the position
C17_Witness ==
    /\ call.op = "generate_signal"
    /\ sig.action = "sell"
    /\ sig.reason = "CONVICTION"
    /\ st.last_signal = NoSignal
    /\ st.trade_count = 2

\* the four fields of the open position
PositionFields(s) == {s.entry_price, s.entry_time, s.trailing_high, s.trailing_low}

AllSet(s) == None \notin PositionFields(s)

AllCleared(s) == PositionFields(s) = {None}

\* C18: in every state reachable by generate_signal and on_trade from a fresh
\* instance, entry_price, entry_time, trailing_high and trailing_low are all
\* set or all cleared; a returned buy sets all four and a returned sell clears
\* all four.
C18_PositionFields ==
    /\ [](AllSet(st) \/ AllCleared(st))
    /\ [][TradeStep =>
              /\ sig'.action = "buy" => AllSet(st')
              /\ sig'.action = "sell" => AllCleared(st')]_vars

\* an open position whose trailing_high has moved above its entry price
C18_Witness ==
    /\ AllSet(st)
    /\ RLt(st.entry_price, st.trailing_high)
    /\ st.last_signal = "buy"

\* the sell reasons of the stop-loss and trailing-stop exits
StopReasons == {"STOP_LOSS_TRIGGERED", "TRAILING_STOP_TRIGGERED"}

\* C19: a call that returns sell leaves last_signal "sell" if and only if the
\* sell's reason is the stop-loss or trailing-stop exit, and none for every
\* other sell; it increments trade_count by exactly 1 and stamps
\* last_trade_time with the time of the call.
C19_SellBookkeeping ==
    \A m \in Markets, p \in Portfolios :
        Result(m, p).sig.action = "sell" =>
            /\ Result(m, p).st.last_signal = "sell" <=>
                   Result(m, p).sig.reason \in StopReasons
            /\ Result(m, p).sig.reason \notin StopReasons =>
                   Result(m, p).st.last_signal = NoSignal
            /\ Result(m, p).st.trade_count = st.trade_count + 1
            /\ Result(m, p).st.last_trade_time = DT(now)

\* a trailing-stop sell was returned and recorded as a stop
C19_Witness ==
    /\ call.op = "generate_signal"
    /\ sig.action = "sell"
    /\ sig.reason = "TRAILING_STOP_TRIGGERED"
    /\ st.last_signal = "sell"

\* the sell reasons of the exits that hang off the trailing-stop test
DeadReasons == {"STOP_LOSS_TRIGGERED", "TAKE_PROFIT_TRIGGERED", "TIME_BASED_EXIT"}

\* whole days since the position was opened
DaysHeld == (now - st.entry_time.ticks) \div TicksPerDay

\* C20: no generate_signal call returns a sell whose reason is
\* STOP_LOSS_TRIGGERED, TAKE_PROFIT_TRIGGERED or TIME_BASED_EXIT; a sell that
\* is not the conviction's own is a trailing-stop sell.
C20_DeadExits ==
    \A m \in Markets, p \in Portfolios :
        /\ Result(m, p).sig.reason \notin DeadReasons
        /\ Result(m, p).sig.action = "sell" =>
               Result(m, p).sig.reason \in {"CONVICTION", "TRAILING_STOP_TRIGGERED"}

\* a position held for more than 3 days, and a call that gets as far as the
\* exit rules with a gain at or above take_profit_pct and the quantity held
C20_Witness ==
    /\ Long
    /\ DaysHeld > 3
    /\ call.op = "generate_signal"
    /\ sig.action = "hold"
    /\ \E m \in Markets, p \in Portfolios :
           /\ p.quantity > 0
           /\ ReachesExits(m, p)
           /\ RLe(cfg.take_profit_pct, Gain(m))

(************************ C21 ***********************************************)
\* C21: while a position is open, trailing_high is the maximum and
\* trailing_low the minimum of the current prices of the generate_signal calls
\* made since the entry.  Call by call: a buy sets both to its current price,
\* and a call that finds the position open and leaves it open moves
\* trailing_high up to, and trailing_low down to, its current price.
C21_TrailingExtremes ==
    \A m \in Markets, p \in Portfolios :
        /\ Result(m, p).sig.action = "buy" =>
               /\ Result(m, p).st.trailing_high = R(m.current_price)
               /\ Result(m, p).st.trailing_low = R(m.current_price)
        /\ (Long /\ Result(m, p).st.last_signal = "buy") =>
               /\ Result(m, p).st.trailing_high =
                      RMax(st.trailing_high, R(m.current_price))
               /\ Result(m, p).st.trailing_low =
                      RMin(st.trailing_low, R(m.current_price))

(************************ C22 ***********************************************)
\* the call observes a portfolio value above the peak recorded so far
NewEquityPeak(m, p) == RLt(st.peak_portfolio_value, PortfolioValue(m, p))

\* the step is an on_trade that recorded a winning exit
WinStep ==
    /\ call'.op = "on_trade"
    /\ Len(st'.win_loss_history) = Len(st.win_loss_history) + 1
    /\ st'.win_loss_history[Len(st'.win_loss_history)]

\* the step is a generate_signal that raised peak_portfolio_value
PeakStep ==
    /\ call'.op = "generate_signal"
    /\ RLt(st.peak_portfolio_value, st'.peak_portfolio_value)

\* C22: a generate_signal call that observes a portfolio value strictly above
\* the previous peak_portfolio_value leaves consecutive_losses at 0, and
\* consecutive_losses goes down only on a win or on a new equity peak.
C22_PeakResetsLosses ==
    /\ [](\A m \in Markets, p \in Portfolios :
              NewEquityPeak(m, p) => Result(m, p).st.consecutive_losses = 0)
    /\ [][st'.consecutive_losses < st.consecutive_losses => WinStep \/ PeakStep]_vars

(************************ the MACD in floating point ************************)
\* Python floats round the result of every operation to the nearest value
\* with a fixed number of significant bits (ties to even).  Here the MACD is
\* computed with that rounding, to MantissaBits significant bits; the
\* exponent is unbounded.
MantissaBits == 10

\* a * 2^e, for a rational a and an integer e
ScaleBy(a, e) ==
    IF e >= 0
    THEN LET g == GCD(2^e, a.d) IN [n |-> a.n * ((2^e) \div g), d |-> a.d \div g]
    ELSE LET g == GCD(2^(-e), Abs(a.n))
         IN  [n |-> a.n \div g, d |-> a.d * ((2^(-e)) \div g)]

\* floor(log2(x)) of an integer x > 0
FloorLog2(x) == CHOOSE k \in 0..30 : 2^k <= x /\ (k = 30 \/ x < 2^(k + 1))

\* floor(log2(a)) of a rational a > 0
Exponent(a) ==
    LET l == FloorLog2(a.n) - FloorLog2(a.d)
    IN  IF RLe(ScaleBy(R(1), l), a) THEN l ELSE l - 1

\* the integer nearest to a rational a >= 0, ties to the even one
RoundHalfEven(a) ==
    LET q == a.n \div a.d
        twice == 2 * (a.n % a.d)
    IN  IF twice < a.d THEN q
        ELSE IF twice > a.d THEN q + 1
        ELSE IF q % 2 = 0 THEN q ELSE q + 1

\* the float nearest to a rational a > 0: its MantissaBits leading bits, rounded
FlPos(a) ==
    LET e == Exponent(a) - (MantissaBits - 1)
    IN  ScaleBy(R(RoundHalfEven(ScaleBy(a, -e))), e)

\* the float nearest to a rational
Fl(a) ==
    IF a.n = 0 THEN a
    ELSE IF a.n < 0 THEN RNeg(FlPos(RNeg(a)))
    ELSE FlPos(a)

\* the float operators + - * /
FAdd(a, b) == Fl(RAdd(a, b))
FSub(a, b) == Fl(RSub(a, b))
FMul(a, b) == Fl(RMul(a, b))
FDiv(a, b) == Fl(RDiv(a, b))

\* "ema = price * k + ema * (1 - k)" over the rest of the window
RECURSIVE EmaFold_float(_, _, _)
EmaFold_float(rest, k, ema) ==
    IF rest = <<>> THEN ema
    ELSE EmaFold_float(Tail(rest), k,
                       FAdd(FMul(rest[1], k), FMul(ema, FSub(R(1), k))))

\* the nested helper of _calculate_macd, in float arithmetic
_calculate_ema_float(data, period) ==
    IF Len(data) < period THEN None
    ELSE LET k == FDiv(R(2), R(period + 1))
             w == LastN(data, period)
             \* data[-period+1:] is the whole list when period = 1
             rest == IF period = 1 THEN data ELSE Tail(w)
         IN  EmaFold_float(rest, k, w[1])

\* _calculate_macd in float arithmetic
_calculate_macd_float(prices, fast_period, slow_period, signal_period) ==
    IF Len(prices) < slow_period + signal_period THEN None
    ELSE LET rp == [i \in 1..Len(prices) |-> R(prices[i])]
             fast_ema == _calculate_ema_float(rp, fast_period)
             slow_ema == _calculate_ema_float(rp, slow_period)
         IN  IF fast_ema = None \/ slow_ema = None THEN None
             ELSE LET macd_line == FSub(fast_ema, slow_ema)
                      signal_line ==
                          _calculate_ema_float([i \in 1..signal_period |-> macd_line],
                                               signal_period)
                  IN  IF signal_line = None THEN None
                      ELSE [macd |-> macd_line, signal |-> signal_line,
                            histogram |-> FSub(macd_line, signal_line)]

\* _high_conviction_signal with the MACD in float arithmetic
_high_conviction_signal_float(c, market) ==
    IF Len(market.prices) < Max3(c.rsi_period, c.bb_period, c.macd_slow)
    THEN [score |-> R(0), reason |-> <<"insufficient_data">>]
    ELSE JoinReasons(
           MacdConfirmation(
             _calculate_macd_float(market.prices, c.macd_fast, c.macd_slow,
                                   c.macd_signal),
             BollingerConfirmation(
               R(market.current_price),
               _calculate_bollinger_bands(market.prices, c.bb_period, c.bb_std),
               RsiConfirmation(c, _calculate_rsi(market.prices, c.rsi_period)))))

\* the MACD periods, the longest signal_period and the prices handed to it
MacdFast == 2
MacdSlow == 3
MaxMacdSignal == 5

MacdPrices == {10, 11, 12, 13}

\* the last MacdSlow prices, alone or after MaxMacdSignal copies of the first
MacdTails == [1..MacdSlow -> MacdPrices]

MacdInputs ==
    MacdTails \cup { [i \in 1..MaxMacdSignal |-> tail[1]] \o tail : tail \in MacdTails }

\* conviction_threshold as __init__ defaults it
DefaultThreshold == Rat(9, 10)

MacdConfigs ==
    { [BaseConfig EXCEPT !.conviction_threshold = DefaultThreshold,
                         !.macd_fast = MacdFast, !.macd_slow = MacdSlow,
                         !.macd_signal = n] : n \in 1..MaxMacdSignal }

InitMacd ==
    /\ cfg \in MacdConfigs
    /\ st = Fresh
    /\ now = 0
    /\ sig = NoSignalYet
    /\ call \in { [op |-> "init", prices |-> prices] : prices \in MacdInputs }

\* _high_conviction_signal(market) on the prices drawn, with the MACD tuple it
\* computed
Conviction ==
    /\ call.op = "init"
    /\ call' = [op |-> "conviction", prices |-> call.prices,
                macd |-> _calculate_macd_float(call.prices, cfg.macd_fast,
                                               cfg.macd_slow, cfg.macd_signal),
                result |-> _high_conviction_signal_float(
                               cfg, [prices |-> call.prices,
                                     current_price |-> call.prices[Len(call.prices)]])]
    /\ UNCHANGED <<cfg, st, now, sig>>

NextMacd == Conviction

SpecMacd == InitMacd /\ [][NextMacd]_vars

(************************ C23 ***********************************************)
\* the reasons the MACD contributor appends
MacdReasons == {"macd_bullish", "macd_bearish"}

\* C23: the signal line of the degenerate MACD always equals the MACD line, so
\* the histogram is 0 and the MACD contributor never triggers; the magnitude of
\* the conviction score never exceeds 0.7, and it stays below the default
\* conviction_threshold of 0.9, at which generate_signal returns the
\* low-conviction hold.
C23_MacdDegenerate ==
    call.op = "conviction" =>
        /\ call.macd # None =>
               /\ call.macd.signal = call.macd.macd
               /\ call.macd.histogram = R(0)
        /\ \A i \in 1..Len(call.result.reason) : call.result.reason[i] \notin MacdReasons
        /\ RLe(RAbs(call.result.score), Rat(7, 10))
        /\ RLt(RAbs(call.result.score), cfg.conviction_threshold)

(************************ C24 ***********************************************)
\* the trailing-stop condition of the open position at the market's price
TrailingStopMet(m) ==
    /\ Long
    /\ st.trailing_high # None
    /\ RLe(R(m.current_price),
           RMul(st.trailing_high, RSub(R(1), cfg.trailing_stop_pct)))

\* "Apply high-conviction threshold": the score is below conviction_threshold
LowConviction(m) ==
    RLt(RAbs(ConvictionTable[cfg][m].score), cfg.conviction_threshold)

\* one of the pre-check gates stops the call
GateClosed(m, p) ==
    \/ TradeCountBreached
    \/ CooldownBreached
    \/ DrawdownBreached(m, p)
    \/ ConsecutiveLossBreached(m, p)
    \/ LowConviction(m)

Unfilled == { p \in Portfolios : p.quantity = 0 }

\* C25: a call that returns buy leaves the strategy Long whether or not the
\* order is filled, and on_trade does not end the position; while Long, every
\* call made with a held quantity of 0 returns hold and leaves the position
\* and trade_count as they were: past the gates a buy is suppressed as
\* already_in_long_position and a sell is refused as no position to sell.
C25_LongAbsorbing ==
    /\ \A m \in Markets, p \in Portfolios :
           Result(m, p).sig.action = "buy" =>
               /\ Result(m, p).st.last_signal = "buy"
               /\ Result(m, p).st.entry_price # None
    /\ Long =>
           /\ \A a \in {"buy", "sell", "hold"}, x \in PriceSet, z \in {0, 1} :
                  /\ on_trade(st, a, x, z).last_signal = "buy"
                  /\ on_trade(st, a, x, z).entry_price = st.entry_price
           /\ \A m \in Markets, p \in Unfilled :
                  /\ Result(m, p).sig.action = "hold"
                  /\ Result(m, p).st.last_signal = "buy"
                  /\ Result(m, p).st.entry_price = st.entry_price
                  /\ Result(m, p).st.trade_count = st.trade_count
                  /\ ReachesExits(m, p) =>
                         Result(m, p).sig.reason \in
                             {"already_in_long_position", "No position to sell"}

\* Long after a single buy, and the last call, made with nothing held, had its
\* sell refused
C25_Witness ==
    /\ Long
    /\ st.trade_count = 1
    /\ call.op = "generate_signal"
    /\ sig = Hold("No position to sell", <<>>)
    /\ \E m \in Markets, p \in Unfilled :
           ReachesExits(m, p) /\ Result(m, p).sig.reason = "already_in_long_position"

====
